---- MODULE Spec2Model ----
(***************************************************************************)
(* GR Cup race analytics: the Race Replay Projector (race_simulator.py),   *)
(* the strategy heuristics (strategy_calculator.py) and the weather        *)
(* estimator (weather_analyzer.py) over an in-memory lap table and an      *)
(* in-memory weather table, and the dashboard session (app.py) that        *)
(* drives them.                                                            *)
(*                                                                         *)
(* A lap table is a record [has_lap_number, rows]: has_lap_number tells    *)
(* whether the LAP_NUMBER column exists, rows is the sequence of rows in   *)
(* file order, each [NUMBER, LAP_NUMBER, LAP_TIME_SEC].  A cell that is    *)
(* NaN in the data frame is NA here.  Lap times are whole seconds (tenths  *)
(* of a second in the tables of the undercut specification); a             *)
(* median is carried as twice its value (Median2) so that the mean of the  *)
(* two middle values stays an integer, and a percentage is carried as a    *)
(* fraction [num, den] with den > 0.                                       *)
(***************************************************************************)
EXTENDS Integers, Sequences, FiniteSets, TLC

VARIABLES lap_data, weather_data, now, simulation_start_time,
          speed_multiplier, current_lap, call, result, earlier, session

vars == <<lap_data, weather_data, now, simulation_start_time,
          speed_multiplier, current_lap, call, result, earlier,
          session>>

sim_vars == <<simulation_start_time, speed_multiplier, current_lap>>

(***************************************************************************)
(* Values                                                                  *)
(***************************************************************************)
\* NaN in a numeric column (np.nan, pd.to_numeric(errors='coerce')).
NA == -1

\* self.simulation_start_time = None
None == -2

\* largest table of the replay specification, in rows
MaxReplayRows == 2

\* the wall clock runs from 0 to MaxTime seconds
MaxTime == 3

\* cap of current_lap when the table has no LAP_NUMBER column
DefaultLapCap == 50

\* speed_multiplier set by the constructor (1.0)
InitialSpeedMultiplier == 1

\* arguments of start_simulation: the slider's default 60, and 30
SpeedMultipliers == {30, 60}

Row(n, l, t) == [NUMBER |-> n, LAP_NUMBER |-> l, LAP_TIME_SEC |-> t]

Table(h, rs) == [has_lap_number |-> h, rows |-> rs]

\* DataFrame.empty
IsEmpty(table) == table.rows = <<>>

\* the weather table when no weather file was found: pd.DataFrame()
NoWeather == <<>>

\* no result of an earlier call is being held by the caller
NoEarlier == [held |-> FALSE]

\* st.session_state before any button is pressed: no simulator, no data
\* loaded, no simulation running, and no race_data entry yet
NoSession ==
    [simulator |-> FALSE,
     data_loaded |-> FALSE,
     simulation_running |-> FALSE,
     race_data |-> None]

Max(a, b) == IF a >= b THEN a ELSE b

Min(a, b) == IF a <= b THEN a ELSE b

(***************************************************************************)
(* pandas helpers                                                          *)
(***************************************************************************)
\* the comparison of a descending sort: larger values first, NaN last
SortsBefore_descending(a, b) == a # NA /\ (b = NA \/ a > b)

\* a < b in a sort that puts NaN last
SortsBefore(a, b) == a # NA /\ (b = NA \/ a < b)

\* 1-based place of row i after a stable ascending sort on column col
SortRank(rows, col, i) ==
    1 + Cardinality({j \in 1..Len(rows) :
            \/ SortsBefore(rows[j][col], rows[i][col])
            \/ /\ ~SortsBefore(rows[i][col], rows[j][col])
               /\ j < i})

\* DataFrame.sort_values(col): ascending, NaN last, equal keys in file order
sort_values(rows, col) ==
    [p \in 1..Len(rows) |->
        rows[CHOOSE i \in 1..Len(rows) : SortRank(rows, col, i) = p]]

\* the non-NaN values of a column, in row order (what skipna aggregates see)
Column(rows, col) ==
    LET kept == SelectSeq(rows, LAMBDA r : r[col] # NA)
    IN  [i \in 1..Len(kept) |-> kept[i][col]]

\* ascending sort of a sequence of numbers
SortedValues(vals) ==
    [p \in 1..Len(vals) |->
        vals[CHOOSE i \in 1..Len(vals) :
            p = 1 + Cardinality({j \in 1..Len(vals) :
                    vals[j] < vals[i] \/ (vals[j] = vals[i] /\ j < i)})]]

\* twice Series.median() of a non-empty sequence of numbers
Median2OfValues(vals) ==
    LET s == SortedValues(vals)
        n == Len(vals)
    IN  IF n % 2 = 1 THEN 2 * s[(n + 1) \div 2]
        ELSE s[n \div 2] + s[n \div 2 + 1]

\* twice Series.median() of a column, NaN skipped; NA when nothing is left
Median2(rows, col) ==
    IF Column(rows, col) = <<>> THEN NA ELSE Median2OfValues(Column(rows, col))

\* Series.max() of a column, NaN skipped; NA when nothing is left
ColumnMax(rows, col) ==
    LET vals == Column(rows, col)
    IN  IF vals = <<>> THEN NA
        ELSE CHOOSE m \in {vals[i] : i \in 1..Len(vals)} :
                \A i \in 1..Len(vals) : vals[i] <= m

\* Series.min() of a column, NaN skipped; NA when nothing is left
ColumnMin(rows, col) ==
    LET vals == Column(rows, col)
    IN  IF vals = <<>> THEN NA
        ELSE CHOOSE m \in {vals[i] : i \in 1..Len(vals)} :
                \A i \in 1..Len(vals) : m <= vals[i]

\* int(num / den) for den > 0: truncation toward zero
IntDiv(num, den) ==
    IF num >= 0 THEN num \div den ELSE 0 - ((0 - num) \div den)

(***************************************************************************)
(* Race Replay Projector                                                   *)
(***************************************************************************)
\* elapsed_real * self.speed_multiplier
ElapsedRace == (now - simulation_start_time) * speed_multiplier

\* the guard of the lap computation: table not empty and median > 0
PacingDefined(table) ==
    /\ ~IsEmpty(table)
    /\ Median2(table.rows, "LAP_TIME_SEC") # NA
    /\ Median2(table.rows, "LAP_TIME_SEC") > 0

\* int(lap_data['LAP_NUMBER'].max()) raises ValueError on NaN
LapCapRaises(table) ==
    table.has_lap_number /\ ColumnMax(table.rows, "LAP_NUMBER") = NA

\* the second argument of min(): the largest lap number, or 50
LapCap(table) ==
    IF table.has_lap_number THEN ColumnMax(table.rows, "LAP_NUMBER")
    ELSE DefaultLapCap

\* the lap computation starting again from lap 1 after the last lap
ProjectedLap_wrapped(table, elapsed_race) ==
    (IntDiv(2 * elapsed_race, Median2(table.rows, "LAP_TIME_SEC"))
        % LapCap(table)) + 1

\* min(int(elapsed_race / avg_lap_time) + 1, cap)
ProjectedLap(table, elapsed_race) ==
    Min(IntDiv(2 * elapsed_race, Median2(table.rows, "LAP_TIME_SEC")) + 1,
        LapCap(table))

\* lap_data[lap_data['LAP_NUMBER'] == lap].copy(), or an empty frame
CurrentLapRows(table, lap) ==
    IF table.has_lap_number
    THEN SelectSeq(table.rows, LAMBDA r : r.LAP_NUMBER = lap)
    ELSE <<>>

\* one entry of the ranked list
PositionEntry(p, row) ==
    [position |-> p,
     number |-> IF row.NUMBER # NA THEN row.NUMBER ELSE 0,
     lap_time_sec |-> row.LAP_TIME_SEC]

\* _calculate_positions numbering the entries from 0
calculate_positions_from_zero(rows) ==
    IF rows = <<>> THEN <<>>
    ELSE LET sorted == sort_values(rows, "LAP_TIME_SEC")
         IN  [p \in 1..Len(sorted) |-> PositionEntry(p - 1, sorted[p])]

\* RaceSimulator._calculate_positions
calculate_positions(rows) ==
    IF rows = <<>> THEN <<>>
    ELSE LET sorted == sort_values(rows, "LAP_TIME_SEC")
         IN  [p \in 1..Len(sorted) |-> PositionEntry(p, sorted[p])]

\* the dictionary get_current_race_state returns in RUNNING
RaceState(table, lap, elapsed_race) ==
    [kind |-> "state",
     current_lap |-> lap,
     elapsed_time |-> elapsed_race,
     positions |-> calculate_positions(CurrentLapRows(table, lap)),
     lap_data |-> CurrentLapRows(table, lap)]

EmptyResult == [kind |-> "empty"]

RaisedResult == [kind |-> "raised"]

NoResult == [kind |-> "none"]

\* the projector's fields, as recorded with a call before it runs
SimFields ==
    [simulation_start_time |-> simulation_start_time,
     speed_multiplier |-> speed_multiplier,
     current_lap |-> current_lap]

\* RaceSimulator.__init__ on the given table
Construct(table) ==
    /\ lap_data = table
    /\ current_lap = 1
    /\ simulation_start_time = None
    /\ speed_multiplier = InitialSpeedMultiplier
    /\ call = [op |-> "init"]
    /\ result = NoResult

\* start_simulation without line 28: the cached lap survives a restart
start_simulation_keeps_lap(m) ==
    /\ speed_multiplier' = m
    /\ simulation_start_time' = now
    /\ call' = [op |-> "start_simulation", speed_multiplier |-> m,
                before |-> SimFields]
    /\ result' = NoResult
    /\ UNCHANGED <<lap_data, weather_data, earlier, session, now, current_lap>>

\* RaceSimulator.start_simulation(speed_multiplier)
start_simulation(m) ==
    /\ speed_multiplier' = m
    /\ simulation_start_time' = now
    /\ current_lap' = 1
    /\ call' = [op |-> "start_simulation", speed_multiplier |-> m,
                before |-> SimFields]
    /\ result' = NoResult
    /\ UNCHANGED <<lap_data, weather_data, earlier, session, now>>

\* the STOPPED test left out
IsStopped_never == FALSE

\* if self.simulation_start_time is None
IsStopped == simulation_start_time = None

\* RaceSimulator.get_current_race_state()
get_current_race_state ==
    /\ call' = [op |-> "get_current_race_state", before |-> SimFields]
    /\ UNCHANGED <<lap_data, weather_data, earlier, session, now,
                   simulation_start_time, speed_multiplier>>
    /\ IF IsStopped
       THEN /\ result' = EmptyResult
            /\ UNCHANGED current_lap
       ELSE IF PacingDefined(lap_data) /\ LapCapRaises(lap_data)
       THEN /\ result' = RaisedResult
            /\ UNCHANGED current_lap
       ELSE /\ current_lap' = IF PacingDefined(lap_data)
                              THEN ProjectedLap(lap_data, ElapsedRace)
                              ELSE current_lap
            /\ result' = RaceState(lap_data, current_lap', ElapsedRace)

\* a wall clock that is set back by one second
Tick_backwards ==
    /\ now > 0 - MaxTime
    /\ now' = now - 1
    /\ call' = [op |-> "tick"]
    /\ result' = NoResult
    /\ UNCHANGED <<lap_data, weather_data, earlier, session, sim_vars>>

\* the wall clock (datetime.now()) moves on by one second; it never runs
\* backwards here
Tick ==
    /\ now < MaxTime
    /\ now' = now + 1
    /\ call' = [op |-> "tick"]
    /\ result' = NoResult
    /\ UNCHANGED <<lap_data, weather_data, earlier, session, sim_vars>>

(***************************************************************************)
(* Lap tables of the replay specification: every car has one row, cars are *)
(* numbered in file order.                                                 *)
(***************************************************************************)
ReplayLapNumbers == {1, 2, NA}

ReplayLapTimes == {NA, 0, 40, 60}

ReplayRowSeqs ==
    UNION {[1..n -> ReplayLapNumbers \X ReplayLapTimes] : n \in 0..MaxReplayRows}

ReplayTables ==
    {Table(TRUE, [i \in DOMAIN c |-> Row(i, c[i][1], c[i][2])]) :
        c \in ReplayRowSeqs}
    \cup
    {Table(FALSE, [i \in DOMAIN c |-> Row(i, NA, c[i][2])]) :
        c \in {d \in ReplayRowSeqs : \A i \in DOMAIN d : d[i][1] = NA}}

InitReplay ==
    /\ now = 0
    /\ weather_data = NoWeather
    /\ earlier = NoEarlier
    /\ session = NoSession
    /\ \E table \in ReplayTables : Construct(table)

NextReplay ==
    \/ \E m \in SpeedMultipliers : start_simulation(m)
    \/ get_current_race_state
    \/ Tick

SpecReplay == InitReplay /\ [][NextReplay]_vars

(***************************************************************************)
(* Tire Degradation Estimator and Pit Window Advisor                       *)
(***************************************************************************)
\* fewest laps with a lap time a driver needs (len(driver_laps) < 3)
MinDriverLaps == 3

\* laps the baseline is taken over (iloc[:min(5, len(driver_laps))])
BaselineLaps == 5

\* threshold = 2.0, in percent
Threshold == 2

\* laps the pit stop is recommended before the critical lap
PitLead == 2

\* largest critical_lap - current_lap that is urgent
UrgentWithin == 3

\* laps added to current_lap when there is no degradation data
InsufficientDataLaps == 10

\* self.tire_life
tire_life == 20

\* total_laps: int = 30
DefaultTotalLaps == 30

\* if driver_number: None and 0 select no driver
HasDriverFilter(driver_number) == driver_number # None /\ driver_number # 0

\* data[data[number_col] == number]
RowsOfNumber(rows, number) == SelectSeq(rows, LAMBDA r : r.NUMBER = number)

\* data[number_col].dropna().unique(): first occurrences, in row order
UniqueNumbers(rows) ==
    LET nums == Column(rows, "NUMBER")
        firsts == SelectSeq([i \in 1..Len(nums) |-> i],
                      LAMBDA i : \A j \in 1..(i - 1) : nums[j] # nums[i])
    IN  [k \in 1..Len(firsts) |-> nums[firsts[k]]]

\* the driver's rows by LAP_NUMBER, then those whose lap time is not NaN
DriverLaps(data, number) ==
    SelectSeq(sort_values(RowsOfNumber(data, number), "LAP_NUMBER"),
              LAMBDA r : r.LAP_TIME_SEC # NA)

\* twice baseline_laps.median() over the first min(5, len) laps
Baseline2(driver_laps) ==
    Median2(SubSeq(driver_laps, 1, Min(BaselineLaps, Len(driver_laps))),
            "LAP_TIME_SEC")

\* one element of degradation_data; BASELINE2 and DEGRADATION2 are twice
\* BASELINE and DEGRADATION, DEGRADATION_PCT is num / den
DegradationPoint(number, row, baseline2) ==
    [NUMBER |-> number,
     LAP_NUMBER |-> row.LAP_NUMBER,
     LAP_TIME |-> row.LAP_TIME_SEC,
     BASELINE2 |-> baseline2,
     DEGRADATION2 |-> 2 * row.LAP_TIME_SEC - baseline2,
     DEGRADATION_PCT |-> [num |-> (2 * row.LAP_TIME_SEC - baseline2) * 100,
                          den |-> baseline2]]

\* the body of the loop over the drivers: the points one driver adds
DriverPoints(data, number) ==
    LET driver_laps == DriverLaps(data, number)
        baseline2 == Baseline2(driver_laps)
        timed == SelectSeq(driver_laps, LAMBDA r : r.LAP_TIME_SEC > 0)
    IN  IF Len(driver_laps) < MinDriverLaps THEN <<>>
        ELSE IF baseline2 <= 0 THEN <<>>
        ELSE [k \in 1..Len(timed) |->
                DegradationPoint(number, timed[k], baseline2)]

RECURSIVE PointsOfDrivers(_, _)
\* degradation_data after the loop over the given driver numbers
PointsOfDrivers(data, numbers) ==
    IF numbers = <<>> THEN <<>>
    ELSE DriverPoints(data, Head(numbers))
            \o PointsOfDrivers(data, Tail(numbers))

\* StrategyCalculator.calculate_tire_degradation: the rows of the frame
calculate_tire_degradation(table, driver_number) ==
    IF IsEmpty(table) THEN <<>>
    ELSE LET data == IF HasDriverFilter(driver_number)
                     THEN RowsOfNumber(table.rows, driver_number)
                     ELSE table.rows
         IN  IF ~table.has_lap_number THEN <<>>
             ELSE PointsOfDrivers(data, UniqueNumbers(data))

\* DEGRADATION_PCT > threshold
ExceedsThreshold(pct) == pct.num > Threshold * pct.den

\* the dictionary returned when there is nothing to go by
InsufficientData(current_lap_arg, reason) ==
    [kind |-> "recommendation",
     recommended_lap |-> current_lap_arg + InsufficientDataLaps,
     reason |-> reason,
     urgency |-> "low"]

\* the urgency test written with < for <=
Urgency_strict(critical_lap, current_lap_arg) ==
    IF critical_lap - current_lap_arg < UrgentWithin THEN "high" ELSE "medium"

\* 'high' if critical_lap - current_lap <= 3 else 'medium'
Urgency(critical_lap, current_lap_arg) ==
    IF critical_lap - current_lap_arg <= UrgentWithin THEN "high" ELSE "medium"

\* the critical-lap dictionary with laps_remaining clamped at zero
CriticalRecommendation_clamped(driver_degradation, critical_laps, current_lap_arg) ==
    LET critical_lap == ColumnMin(critical_laps, "LAP_NUMBER")
    IN  IF critical_lap = NA THEN RaisedResult
        ELSE [kind |-> "recommendation",
              recommended_lap |-> Max(current_lap_arg, critical_lap - PitLead),
              critical_lap |-> critical_lap,
              current_degradation |->
                driver_degradation[Len(driver_degradation)].DEGRADATION_PCT,
              reason |-> "Tire degradation at 2.0% threshold",
              urgency |-> Urgency(critical_lap, current_lap_arg),
              laps_remaining |-> Max(0, critical_lap - current_lap_arg)]

\* the dictionary returned in the critical-lap branch; int(critical_lap)
\* raises ValueError when no critical point has a lap number
CriticalRecommendation(driver_degradation, critical_laps, current_lap_arg) ==
    LET critical_lap == ColumnMin(critical_laps, "LAP_NUMBER")
    IN  IF critical_lap = NA THEN RaisedResult
        ELSE [kind |-> "recommendation",
              recommended_lap |-> Max(current_lap_arg, critical_lap - PitLead),
              critical_lap |-> critical_lap,
              current_degradation |->
                driver_degradation[Len(driver_degradation)].DEGRADATION_PCT,
              reason |-> "Tire degradation at 2.0% threshold",
              urgency |-> Urgency(critical_lap, current_lap_arg),
              laps_remaining |-> critical_lap - current_lap_arg]

\* the default recommendation without the halving of total_laps
OptimalWindow_whole_race(current_lap_arg, total_laps) ==
    LET optimal_lap == Min(current_lap_arg + tire_life, total_laps)
    IN  [kind |-> "recommendation",
         recommended_lap |-> optimal_lap,
         reason |-> "Optimal tire life window",
         urgency |-> "low",
         laps_remaining |-> optimal_lap - current_lap_arg]

\* the default recommendation
OptimalWindow(current_lap_arg, total_laps) ==
    LET optimal_lap == Min(current_lap_arg + tire_life, total_laps \div 2)
    IN  [kind |-> "recommendation",
         recommended_lap |-> optimal_lap,
         reason |-> "Optimal tire life window",
         urgency |-> "low",
         laps_remaining |-> optimal_lap - current_lap_arg]

\* StrategyCalculator.recommend_pit_window
recommend_pit_window(table, driver_number, current_lap_arg, total_laps) ==
    LET degradation == calculate_tire_degradation(table, driver_number)
        driver_degradation == RowsOfNumber(degradation, driver_number)
        critical_laps == SelectSeq(driver_degradation,
                            LAMBDA d : ExceedsThreshold(d.DEGRADATION_PCT))
    IN  IF degradation = <<>>
        THEN InsufficientData(current_lap_arg, "Insufficient data")
        ELSE IF driver_degradation = <<>>
        THEN InsufficientData(current_lap_arg, "No degradation data")
        ELSE IF critical_laps # <<>>
        THEN CriticalRecommendation(driver_degradation, critical_laps,
                                    current_lap_arg)
        ELSE OptimalWindow(current_lap_arg, total_laps)

\* no call of the calculator is in progress: its caller is single-threaded
\* and every call returns before the next one is made
Idle == call.op \in {"init", "idle"}

\* the caller has taken the result of the last call
Return ==
    /\ ~Idle
    /\ call' = [op |-> "idle"]
    /\ result' = NoResult
    /\ UNCHANGED <<lap_data, weather_data, earlier, session, now, sim_vars>>

\* a call of calculate_tire_degradation(driver_number)
CalculateTireDegradation(driver_number) ==
    /\ Idle
    /\ call' = [op |-> "calculate_tire_degradation",
                driver_number |-> driver_number]
    /\ result' = [kind |-> "degradation",
                  points |-> calculate_tire_degradation(lap_data,
                                                        driver_number)]
    /\ UNCHANGED <<lap_data, weather_data, earlier, session, now, sim_vars>>

\* recommend_pit_window taking the current lap from the projector instead
\* of from its argument
RecommendPitWindow_at_projected_lap(driver_number, current_lap_arg, total_laps) ==
    /\ Idle
    /\ call' = [op |-> "recommend_pit_window",
                driver_number |-> driver_number,
                current_lap |-> current_lap_arg,
                total_laps |-> total_laps]
    /\ result' = recommend_pit_window(lap_data, driver_number,
                                      current_lap, total_laps)
    /\ UNCHANGED <<lap_data, weather_data, earlier, session, now, sim_vars>>

\* a call of recommend_pit_window(driver_number, current_lap, total_laps)
RecommendPitWindow(driver_number, current_lap_arg, total_laps) ==
    /\ Idle
    /\ call' = [op |-> "recommend_pit_window",
                driver_number |-> driver_number,
                current_lap |-> current_lap_arg,
                total_laps |-> total_laps]
    /\ result' = recommend_pit_window(lap_data, driver_number,
                                      current_lap_arg, total_laps)
    /\ UNCHANGED <<lap_data, weather_data, earlier, session, now, sim_vars>>

(***************************************************************************)
(* Undercut Feasibility Calculator.  The lap times of the tables it is     *)
(* called on are in tenths of a second, and so are fresh_tire_gain,        *)
(* pit_stop_time and the gaps and gains of its results.  A gap or a net    *)
(* advantage that is NaN in the code is NA here.                           *)
(***************************************************************************)
\* self.pit_stop_time = 30.0 seconds
pit_stop_time == 300

\* fresh_tire_gain = 0.5 seconds per lap
fresh_tire_gain == 5

\* undercut_laps = 2
undercut_laps == 2

\* an infeasible result that gives 'No data' for every reason
Infeasible_unexplained(reason) ==
    [kind |-> "undercut", feasible |-> FALSE, reason |-> "No data"]

\* {'feasible': False, 'reason': reason}
Infeasible(reason) ==
    [kind |-> "undercut", feasible |-> FALSE, reason |-> reason]

\* the indices of the rows of the given car, in row order
IndicesOfNumber(rows, number) ==
    SelectSeq([i \in 1..Len(rows) |-> i], LAMBDA i : rows[i].NUMBER = number)

\* the position test written with < for <=
AtOrAhead_strict(current_pos, target_position) ==
    current_pos < target_position

\* if current_pos <= target_position
AtOrAhead(current_pos, target_position) == current_pos <= target_position

\* a - b in floating point: NaN when either operand is NaN
Minus(a, b) == IF a = NA \/ b = NA THEN NA ELSE a - b

\* the dictionary of lines 180-188 with a target that sits on every lap
UndercutAssessment_free_stop(current_pos, target_position, gap) ==
    LET potential_gain == fresh_tire_gain * undercut_laps
        feasible == gap # NA /\ potential_gain > gap
    IN  [kind |-> "undercut",
         feasible |-> feasible,
         current_position |-> current_pos,
         target_position |-> target_position,
         gap_to_target |-> gap,
         potential_gain |-> potential_gain,
         net_advantage |-> IF gap = NA THEN NA ELSE potential_gain - gap,
         recommendation |-> IF feasible THEN "Pit now for undercut"
                            ELSE "Stay out, gap too large"]

\* the dictionary of lines 180-188; a comparison with NaN is false
UndercutAssessment(current_pos, target_position, gap) ==
    LET potential_gain == fresh_tire_gain * undercut_laps
        feasible == gap # NA /\ potential_gain > gap + pit_stop_time
    IN  [kind |-> "undercut",
         feasible |-> feasible,
         current_position |-> current_pos,
         target_position |-> target_position,
         gap_to_target |-> gap,
         potential_gain |-> potential_gain,
         net_advantage |-> IF gap = NA THEN NA
                           ELSE potential_gain - gap - pit_stop_time,
         recommendation |-> IF feasible THEN "Pit now for undercut"
                            ELSE "Stay out, gap too large"]

\* calculate_undercut_overtake with the test of lines 163-168 (the target
\* rank exists) moved ahead of the position test of lines 157-160
calculate_undercut_overtake_target_first(table, driver_number, target_position, current_lap_arg) ==
    LET at_lap == SelectSeq(table.rows,
                            LAMBDA r : r.LAP_NUMBER = current_lap_arg)
        current_lap_data == sort_values(at_lap, "LAP_TIME_SEC")
        driver_pos == IndicesOfNumber(current_lap_data, driver_number)
        current_pos == driver_pos[1]
    IN  IF IsEmpty(table) THEN Infeasible("No data")
        ELSE IF ~table.has_lap_number THEN RaisedResult
        ELSE IF at_lap = <<>> THEN Infeasible("No current lap data")
        ELSE IF driver_pos = <<>> THEN Infeasible("Driver not found")
        ELSE IF target_position \notin 1..Len(current_lap_data)
        THEN Infeasible("Target position not found")
        ELSE IF AtOrAhead(current_pos, target_position)
        THEN Infeasible("Already at or ahead of target")
        ELSE UndercutAssessment(
                current_pos, target_position,
                Minus(current_lap_data[current_pos].LAP_TIME_SEC,
                      current_lap_data[target_position].LAP_TIME_SEC))

\* StrategyCalculator.calculate_undercut_overtake; the 'position' column of
\* the sorted copy is the index into current_lap_data, and a table with rows
\* but no LAP_NUMBER column raises KeyError at line 139
calculate_undercut_overtake(table, driver_number, target_position, current_lap_arg) ==
    LET at_lap == SelectSeq(table.rows,
                            LAMBDA r : r.LAP_NUMBER = current_lap_arg)
        current_lap_data == sort_values(at_lap, "LAP_TIME_SEC")
        driver_pos == IndicesOfNumber(current_lap_data, driver_number)
        current_pos == driver_pos[1]
    IN  IF IsEmpty(table) THEN Infeasible("No data")
        ELSE IF ~table.has_lap_number THEN RaisedResult
        ELSE IF at_lap = <<>> THEN Infeasible("No current lap data")
        ELSE IF driver_pos = <<>> THEN Infeasible("Driver not found")
        ELSE IF AtOrAhead(current_pos, target_position)
        THEN Infeasible("Already at or ahead of target")
        ELSE IF target_position \notin 1..Len(current_lap_data)
        THEN Infeasible("Target position not found")
        ELSE UndercutAssessment(
                current_pos, target_position,
                Minus(current_lap_data[current_pos].LAP_TIME_SEC,
                      current_lap_data[target_position].LAP_TIME_SEC))

\* calculate_undercut_overtake sorting self.lap_data itself by lap time
\* where the code sorts a copy of the current-lap rows
CalculateUndercutOvertake_in_place(driver_number, target_position, current_lap_arg) ==
    /\ Idle
    /\ call' = [op |-> "calculate_undercut_overtake",
                driver_number |-> driver_number,
                target_position |-> target_position,
                current_lap |-> current_lap_arg]
    /\ result' = calculate_undercut_overtake(lap_data, driver_number,
                                             target_position,
                                             current_lap_arg)
    /\ lap_data' = [lap_data EXCEPT
                        !.rows = sort_values(@, "LAP_TIME_SEC")]
    /\ UNCHANGED <<weather_data, earlier, session, now, sim_vars>>

\* a call of calculate_undercut_overtake(driver_number, target_position,
\* current_lap)
CalculateUndercutOvertake(driver_number, target_position, current_lap_arg) ==
    /\ Idle
    /\ call' = [op |-> "calculate_undercut_overtake",
                driver_number |-> driver_number,
                target_position |-> target_position,
                current_lap |-> current_lap_arg]
    /\ result' = calculate_undercut_overtake(lap_data, driver_number,
                                             target_position,
                                             current_lap_arg)
    /\ UNCHANGED <<lap_data, weather_data, earlier, session, now, sim_vars>>

(***************************************************************************)
(* Lap tables of the strategy specification: up to MaxStrategyRows rows    *)
(* drawn from StrategyRows.  Car 1 laps around 50 s; 51 s is exactly 2%    *)
(* and 53 s is 6% above a 50 s baseline.                                   *)
(***************************************************************************)
\* largest table of the strategy specification, in rows
MaxStrategyRows == 4

StrategyRows ==
    {Row(1, 1, 50), Row(1, 2, 53), Row(1, 7, 53), Row(1, 7, 51),
     Row(1, NA, 53), Row(1, 2, 0), Row(1, 2, NA), Row(0, 1, 50)}

StrategyRowSeqs == UNION {[1..n -> StrategyRows] : n \in 0..MaxStrategyRows}

StrategyTables ==
    {Table(TRUE, rs) : rs \in StrategyRowSeqs}
    \cup
    {Table(FALSE, rs) :
        rs \in {d \in StrategyRowSeqs :
                    \A i \in DOMAIN d : d[i].LAP_NUMBER = NA}}

\* driver_number arguments: cars 0 and 1 of the tables, and car 2 of none
DriverNumbers == {0, 1, 2}

\* current_lap arguments
CurrentLaps == {3, 4}

\* total_laps arguments
TotalLaps == {DefaultTotalLaps}

InitStrategy ==
    /\ now = 0
    /\ weather_data = NoWeather
    /\ earlier = NoEarlier
    /\ session = NoSession
    /\ \E table \in StrategyTables : Construct(table)

NextStrategy ==
    \/ \E d \in DriverNumbers \cup {None} : CalculateTireDegradation(d)
    \/ \E d \in DriverNumbers, c \in CurrentLaps, t \in TotalLaps :
            RecommendPitWindow(d, c, t)
    \/ Return

SpecStrategy == InitStrategy /\ [][NextStrategy]_vars

(***************************************************************************)
(* The pit window specification: recommend_pit_window alone, on the        *)
(* strategy rows in tables of up to MaxPitRows rows, called early and late *)
(* in races of several lengths.                                            *)
(***************************************************************************)
\* largest table of the pit window specification, in rows
MaxPitRows == 3

PitRowSeqs == UNION {[1..n -> StrategyRows] : n \in 0..MaxPitRows}

PitTables ==
    {Table(TRUE, rs) : rs \in PitRowSeqs}
    \cup
    {Table(FALSE, rs) :
        rs \in {d \in PitRowSeqs : \A i \in DOMAIN d : d[i].LAP_NUMBER = NA}}

\* driver_number arguments: the app passes none that is 0, a direct caller
\* may
PitDriverNumbers == {0, 1}

\* current_lap arguments: the first lap and a lap late in the race
PitCurrentLaps == {1, 20}

\* total_laps arguments: the default, an odd length and a long race
PitTotalLaps == {DefaultTotalLaps, 31, 50}

InitPitWindow ==
    /\ now = 0
    /\ weather_data = NoWeather
    /\ earlier = NoEarlier
    /\ session = NoSession
    /\ \E table \in PitTables : Construct(table)

NextPitWindow ==
    \/ \E d \in PitDriverNumbers, c \in PitCurrentLaps, t \in PitTotalLaps :
            RecommendPitWindow(d, c, t)
    \/ Return

SpecPitWindow == InitPitWindow /\ [][NextPitWindow]_vars

(***************************************************************************)
(* The undercut specification: calculate_undercut_overtake on tables of up *)
(* to MaxUndercutRows rows drawn from UndercutRows.  Cars 1 and 2 lap in   *)
(* 40.0 s or 41.2 s on lap 1, car 3 has a lap time of zero.                *)
(***************************************************************************)
\* largest table of the undercut specification, in rows
MaxUndercutRows == 3

UndercutRows ==
    {Row(1, 1, 412), Row(1, 1, 400), Row(2, 1, 400), Row(2, 1, 412),
     Row(2, 1, NA), Row(3, 1, 0), Row(1, 2, 412), Row(1, NA, 400)}

UndercutRowSeqs == UNION {[1..n -> UndercutRows] : n \in 0..MaxUndercutRows}

UndercutTables ==
    {Table(TRUE, rs) : rs \in UndercutRowSeqs}
    \cup
    {Table(FALSE, rs) :
        rs \in {d \in UndercutRowSeqs :
                    \A i \in DOMAIN d : d[i].LAP_NUMBER = NA}}

\* driver_number arguments
UndercutDrivers == {1, 2}

\* target_position arguments: the app offers 1 to 30, a direct caller may
\* pass 0
TargetPositions == {0, 1, 2}

\* current_lap arguments
UndercutLaps == {1, 2}

InitUndercut ==
    /\ now = 0
    /\ weather_data = NoWeather
    /\ earlier = NoEarlier
    /\ session = NoSession
    /\ \E table \in UndercutTables : Construct(table)

NextUndercut ==
    \/ \E d \in UndercutDrivers, t \in TargetPositions, c \in UndercutLaps :
            CalculateUndercutOvertake(d, t, c)
    \/ Return

SpecUndercut == InitUndercut /\ [][NextUndercut]_vars

(***************************************************************************)
(* Weather Impact Estimator.  A weather table is the sequence of its rows, *)
(* each [AIR_TEMP, HUMIDITY, WIND_SPEED, RAIN], NA for a NaN cell.  A mean *)
(* and every number derived from one is a fraction [num, den]; den = 0     *)
(* stands for NaN.                                                         *)
(***************************************************************************)
WeatherRow(t, h, w, r) ==
    [AIR_TEMP |-> t, HUMIDITY |-> h, WIND_SPEED |-> w, RAIN |-> r]

NaNFraction == [num |-> 0, den |-> 0]

\* pd.isna of a fraction
IsNaN(f) == f.den = 0

RECURSIVE Sum(_)
\* the sum of a sequence of numbers
Sum(vals) == IF vals = <<>> THEN 0 ELSE Head(vals) + Sum(Tail(vals))

\* Series.mean() of a column, NaN skipped; NaN when nothing is left
Mean(rows, col) ==
    LET vals == Column(rows, col)
    IN  IF vals = <<>> THEN NaNFraction
        ELSE [num |-> Sum(vals), den |-> Len(vals)]

\* x - f for a number x and a fraction f that is not NaN
MinusFraction(x, f) == [num |-> x * f.den - f.num, den |-> f.den]

\* the trend test written with >= for >
TemperatureTrend_or_equal(max_temp, min_temp) ==
    IF max_temp # NA /\ min_temp # NA /\ max_temp >= min_temp
    THEN "increasing" ELSE "decreasing"

\* 'increasing' if max_temp > min_temp else 'decreasing'; a comparison
\* with NaN is false
TemperatureTrend(max_temp, min_temp) ==
    IF max_temp # NA /\ min_temp # NA /\ max_temp > min_temp
    THEN "increasing" ELSE "decreasing"

\* the lap numbers groupby('LAP_NUMBER') makes groups of: NaN makes none
LapGroups(table) ==
    {table.rows[i].LAP_NUMBER : i \in 1..Len(table.rows)} \ {NA}

\* WeatherAnalyzer.analyze_weather_impact
analyze_weather_impact(weather, table) ==
    LET max_temp == ColumnMax(weather, "AIR_TEMP")
        min_temp == ColumnMin(weather, "AIR_TEMP")
        weather_summary ==
            [kind |-> "weather_summary",
             avg_temp |-> Mean(weather, "AIR_TEMP"),
             max_temp |-> max_temp,
             min_temp |-> min_temp,
             avg_humidity |-> Mean(weather, "HUMIDITY"),
             avg_wind_speed |-> Mean(weather, "WIND_SPEED"),
             rain_occurred |-> Sum(Column(weather, "RAIN")) > 0]
    IN  IF weather = <<>> \/ IsEmpty(table) THEN EmptyResult
        ELSE IF table.has_lap_number /\ Cardinality(LapGroups(table)) > 1
        THEN [kind |-> "weather_summary",
              avg_temp |-> weather_summary.avg_temp,
              max_temp |-> max_temp,
              min_temp |-> min_temp,
              avg_humidity |-> weather_summary.avg_humidity,
              avg_wind_speed |-> weather_summary.avg_wind_speed,
              rain_occurred |-> weather_summary.rain_occurred,
              temperature_trend |-> TemperatureTrend(max_temp, min_temp),
              temperature_range |-> Minus(max_temp, min_temp)]
        ELSE weather_summary

\* the lap-time estimate with 0.05 s for every percent of humidity
LapTimeImpact_per_percent(temp_change, humidity_change) ==
    [num |-> 2 * temp_change.num * humidity_change.den
                + humidity_change.num * temp_change.den,
     den |-> 20 * temp_change.den * humidity_change.den]

\* (temp_change * 0.1) + (humidity_change / 10 * 0.05), that is
\* temp_change / 10 + humidity_change / 200
LapTimeImpact(temp_change, humidity_change) ==
    [num |-> 20 * temp_change.num * humidity_change.den
                + humidity_change.num * temp_change.den,
     den |-> 200 * temp_change.den * humidity_change.den]

\* f"{'+' if impact > 0 else ''}{impact:.3f}s per lap": the sign and the
\* impact rounded to thousandths of a second
ImpactDescription(impact) ==
    [plus |-> impact.num > 0,
     thousandths |-> (2000 * impact.num + impact.den) \div (2 * impact.den)]

\* WeatherAnalyzer.get_weather_forecast_impact
get_weather_forecast_impact(weather, forecast_temp, forecast_humidity) ==
    LET current_avg_temp == Mean(weather, "AIR_TEMP")
        current_avg_humidity == Mean(weather, "HUMIDITY")
        temp_change == MinusFraction(forecast_temp, current_avg_temp)
        humidity_change ==
            MinusFraction(forecast_humidity, current_avg_humidity)
        impact == LapTimeImpact(temp_change, humidity_change)
    IN  IF weather = <<>> THEN EmptyResult
        ELSE IF IsNaN(current_avg_temp) \/ IsNaN(current_avg_humidity)
        THEN EmptyResult
        ELSE [kind |-> "forecast_impact",
              forecasted_temp |-> forecast_temp,
              forecasted_humidity |-> forecast_humidity,
              current_temp |-> current_avg_temp,
              current_humidity |-> current_avg_humidity,
              temp_change |-> temp_change,
              humidity_change |-> humidity_change,
              estimated_lap_time_impact |-> impact,
              impact_description |-> ImpactDescription(impact)]

\* WeatherAnalyzer.get_current_weather: the cells of the last row; bool()
\* of a NaN cell is True
get_current_weather(weather) ==
    IF weather = <<>> THEN EmptyResult
    ELSE LET latest == weather[Len(weather)]
         IN  [kind |-> "current_weather",
              temperature |-> latest.AIR_TEMP,
              humidity |-> latest.HUMIDITY,
              wind_speed |-> latest.WIND_SPEED,
              rain |-> latest.RAIN # 0]

\* a call of analyze_weather_impact()
AnalyzeWeatherImpact ==
    /\ Idle
    /\ call' = [op |-> "analyze_weather_impact"]
    /\ result' = analyze_weather_impact(weather_data, lap_data)
    /\ UNCHANGED <<lap_data, weather_data, earlier, session, now, sim_vars>>

\* a call of get_weather_forecast_impact(forecast_temp, forecast_humidity)
GetWeatherForecastImpact(forecast_temp, forecast_humidity) ==
    /\ Idle
    /\ call' = [op |-> "get_weather_forecast_impact",
                forecast_temp |-> forecast_temp,
                forecast_humidity |-> forecast_humidity]
    /\ result' = get_weather_forecast_impact(weather_data, forecast_temp,
                                             forecast_humidity)
    /\ UNCHANGED <<lap_data, weather_data, earlier, session, now, sim_vars>>

\* a call of get_current_weather()
GetCurrentWeather ==
    /\ Idle
    /\ call' = [op |-> "get_current_weather"]
    /\ result' = get_current_weather(weather_data)
    /\ UNCHANGED <<lap_data, weather_data, earlier, session, now, sim_vars>>

(***************************************************************************)
(* The weather specification: weather tables of up to MaxWeatherRows rows  *)
(* drawn from WeatherRows, and lap tables of as many rows at most with one *)
(* lap, two laps, laps without a number, or no LAP_NUMBER column.          *)
(***************************************************************************)
\* largest weather table and largest lap table of the weather
\* specification, in rows
MaxWeatherRows == 2

WeatherRows ==
    {WeatherRow(20, 40, 5, 0), WeatherRow(25, 50, 3, 1),
     WeatherRow(22, 40, NA, 0), WeatherRow(NA, 40, 5, NA),
     WeatherRow(20, NA, NA, 0)}

WeatherTables == UNION {[1..n -> WeatherRows] : n \in 0..MaxWeatherRows}

WeatherLapRows == {Row(1, 1, 50), Row(1, 2, 53), Row(1, NA, 53)}

WeatherLapRowSeqs ==
    UNION {[1..n -> WeatherLapRows] : n \in 0..MaxWeatherRows}

WeatherLapTables ==
    {Table(TRUE, rs) : rs \in WeatherLapRowSeqs}
    \cup
    {Table(FALSE, rs) :
        rs \in {d \in WeatherLapRowSeqs :
                    \A i \in DOMAIN d : d[i].LAP_NUMBER = NA}}

\* forecast_temp arguments, in degrees: the form's default 25, and 15
ForecastTemps == {15, 25}

\* forecast_humidity arguments, in percent: the form's default 50, and 30
ForecastHumidities == {30, 50}

InitWeather ==
    /\ now = 0
    /\ earlier = NoEarlier
    /\ session = NoSession
    /\ weather_data \in WeatherTables
    /\ \E table \in WeatherLapTables : Construct(table)

NextWeather ==
    \/ AnalyzeWeatherImpact
    \/ \E ft \in ForecastTemps, fh \in ForecastHumidities :
            GetWeatherForecastImpact(ft, fh)
    \/ GetCurrentWeather
    \/ Return

SpecWeather == InitWeather /\ [][NextWeather]_vars

(***************************************************************************)
(* Lap history and driver statistics of the Race Replay Projector.  Both   *)
(* read self.current_lap as the last query left it.  The KPH and TOP_SPEED *)
(* columns are not part of a row, so avg_speed and top_speed are left out. *)
(***************************************************************************)
\* self.lap_data['LAP_NUMBER'] <= self.current_lap; NaN <= n is false
UpToLap(rows, lap) ==
    SelectSeq(rows, LAMBDA r : r.LAP_NUMBER # NA /\ r.LAP_NUMBER <= lap)

\* RaceSimulator.get_lap_history: an empty frame for an empty table, and
\* KeyError for a table with rows but no LAP_NUMBER column
get_lap_history(table, lap, driver_number) ==
    IF IsEmpty(table) THEN [kind |-> "history", rows |-> <<>>]
    ELSE IF ~table.has_lap_number THEN RaisedResult
    ELSE [kind |-> "history",
          rows |-> IF HasDriverFilter(driver_number)
                   THEN UpToLap(RowsOfNumber(table.rows, driver_number), lap)
                   ELSE UpToLap(table.rows, lap)]

\* RaceSimulator.get_driver_stats: there is no test for an empty table, so
\* a table without the LAP_NUMBER column raises KeyError even when empty
get_driver_stats(table, lap, driver_number) ==
    LET driver_data == UpToLap(RowsOfNumber(table.rows, driver_number), lap)
    IN  IF ~table.has_lap_number THEN RaisedResult
        ELSE IF driver_data = <<>> THEN EmptyResult
        ELSE [kind |-> "stats",
              driver_number |-> driver_number,
              laps_completed |-> Len(driver_data),
              best_lap |-> ColumnMin(driver_data, "LAP_TIME_SEC"),
              avg_lap |-> Mean(driver_data, "LAP_TIME_SEC"),
              last_lap |-> driver_data[Len(driver_data)].LAP_TIME_SEC]

\* a call of get_lap_history(driver_number)
GetLapHistory(driver_number) ==
    /\ Idle
    /\ call' = [op |-> "get_lap_history", driver_number |-> driver_number]
    /\ result' = get_lap_history(lap_data, current_lap, driver_number)
    /\ UNCHANGED <<lap_data, weather_data, earlier, session, now, sim_vars>>

\* a call of get_driver_stats(driver_number)
GetDriverStats(driver_number) ==
    /\ Idle
    /\ call' = [op |-> "get_driver_stats", driver_number |-> driver_number]
    /\ result' = get_driver_stats(lap_data, current_lap, driver_number)
    /\ UNCHANGED <<lap_data, weather_data, earlier, session, now, sim_vars>>

(***************************************************************************)
(* The core specification: every operation of the projector, the strategy  *)
(* calculator and the weather analyzer on one lap table of up to           *)
(* MaxCoreRows rows drawn from CoreRows, with or without weather data.     *)
(* Car 2 is faster than car 1 on lap 1 and stands after it in the file;    *)
(* car 2 has no lap time on lap 2; one row of car 1 has no lap number.     *)
(***************************************************************************)
\* largest table of the core specification, in rows
MaxCoreRows == 3

CoreRows == {Row(1, 1, 50), Row(2, 1, 40), Row(2, 2, NA), Row(1, NA, 53)}

CoreRowSeqs == UNION {[1..n -> CoreRows] : n \in 0..MaxCoreRows}

CoreTables ==
    {Table(TRUE, rs) : rs \in CoreRowSeqs}
    \cup
    {Table(FALSE, rs) :
        rs \in {d \in CoreRowSeqs : \A i \in DOMAIN d : d[i].LAP_NUMBER = NA}}

CoreWeatherTables == {NoWeather, <<WeatherRow(20, 40, 5, 0)>>}

\* driver_number arguments: car 1 of the tables and car 3 of none
CoreDrivers == {1, 3}

InitCore ==
    /\ now = 0
    /\ earlier = NoEarlier
    /\ session = NoSession
    /\ weather_data \in CoreWeatherTables
    /\ \E table \in CoreTables : Construct(table)

NextCore ==
    \/ \E m \in SpeedMultipliers : start_simulation(m)
    \/ get_current_race_state
    \/ Tick
    \/ \E d \in CoreDrivers : GetLapHistory(d)
    \/ \E d \in CoreDrivers : GetDriverStats(d)
    \/ \E d \in CoreDrivers : CalculateTireDegradation(d)
    \/ \E d \in CoreDrivers : RecommendPitWindow(d, 1, DefaultTotalLaps)
    \/ \E d \in CoreDrivers, t \in {0, 1} : CalculateUndercutOvertake(d, t, 1)
    \/ AnalyzeWeatherImpact
    \/ GetWeatherForecastImpact(25, 50)
    \/ GetCurrentWeather
    \/ Return

SpecCore == InitCore /\ [][NextCore]_vars

(***************************************************************************)
(* The repetition specification: the caller may hold on to the result of   *)
(* one analytical call while it goes on calling the analytical functions   *)
(* and the projector, on one of a few lap tables.                          *)
(***************************************************************************)
\* the analytical functions
AnalyticalOps ==
    {"calculate_tire_degradation", "recommend_pit_window",
     "calculate_undercut_overtake", "analyze_weather_impact",
     "get_weather_forecast_impact"}

\* the caller keeps the call just made and its result, together with the
\* projector's fields at that moment
KeepResult ==
    /\ call.op \in AnalyticalOps
    /\ ~earlier.held
    /\ earlier' = [held |-> TRUE, call |-> call, result |-> result,
                   at |-> SimFields]
    /\ UNCHANGED <<lap_data, weather_data, session, now, sim_vars, call, result>>

\* three laps of car 1 and one of car 2; the same with car 1 slowing down
\* by 6% on lap 3; a table whose only row has no lap number; no rows
RepeatTables ==
    {Table(TRUE, <<Row(1, 1, 50), Row(2, 1, 40), Row(1, 2, 50),
                   Row(1, 3, 50)>>),
     Table(TRUE, <<Row(1, 1, 50), Row(2, 1, 40), Row(1, 2, 50),
                   Row(1, 3, 53)>>),
     Table(TRUE, <<Row(1, NA, 53)>>),
     Table(TRUE, <<>>)}

InitRepeat ==
    /\ now = 0
    /\ earlier = NoEarlier
    /\ session = NoSession
    /\ weather_data \in CoreWeatherTables
    /\ \E table \in RepeatTables : Construct(table)

NextRepeat ==
    \/ \E m \in SpeedMultipliers : start_simulation(m)
    \/ get_current_race_state
    \/ Tick
    \/ CalculateTireDegradation(1)
    \/ \E c \in {1, 2} : RecommendPitWindow(1, c, DefaultTotalLaps)
    \/ \E d \in {1, 2} : CalculateUndercutOvertake(d, 1, 1)
    \/ AnalyzeWeatherImpact
    \/ GetWeatherForecastImpact(25, 50)
    \/ KeepResult
    \/ Return

SpecRepeat == InitRepeat /\ [][NextRepeat]_vars

(***************************************************************************)
(* Properties of the Race Replay Projector                                 *)
(***************************************************************************)
\* the last step was get_current_race_state
Queried == call.op = "get_current_race_state"

\* the last step was get_current_race_state on a started projector
QueriedRunning == Queried /\ call.before.simulation_start_time # None

\* a lap time that is present and positive
ValidLapTime(t) == t # NA /\ t > 0

\* C1: the projector starts STOPPED (no reference instant, current_lap = 1),
\* and a get_current_race_state issued while STOPPED returns the empty
\* result and leaves the reference instant, the speed multiplier and
\* current_lap as they were before the call.
C1_StoppedQueryReturnsEmpty ==
    /\ call.op = "init" => (simulation_start_time = None /\ current_lap = 1)
    /\ (Queried /\ call.before.simulation_start_time = None)
         => (result = EmptyResult /\ SimFields = call.before)

\* a STOPPED projector was queried after the clock had moved
C1_Witness ==
    /\ Queried
    /\ call.before.simulation_start_time = None
    /\ now > 0
    /\ result = EmptyResult

\* C2: after start_simulation(m), whatever the state before, the projector
\* is RUNNING with the reference instant equal to the instant of the call,
\* the speed multiplier equal to m and current_lap equal to 1.
C2_StartResets ==
    call.op = "start_simulation"
        => /\ simulation_start_time # None
           /\ simulation_start_time = now
           /\ speed_multiplier = call.speed_multiplier
           /\ current_lap = 1

\* a RUNNING projector with a cached lap beyond 1 was restarted with
\* another multiplier
C2_Witness ==
    /\ call.op = "start_simulation"
    /\ call.before.simulation_start_time # None
    /\ call.before.simulation_start_time < now
    /\ call.before.current_lap > 1
    /\ call.before.speed_multiplier # speed_multiplier
    /\ current_lap = 1

\* C3: every get_current_race_state in RUNNING returns a state whose
\* elapsed time is (now - reference instant) * speed multiplier and whose
\* current_lap is min(floor(elapsed / median lap time) + 1, largest lap
\* number of the table), with 50 as the cap when there is no LAP_NUMBER
\* column.
C3_ProjectedLapFormula ==
    QueriedRunning
        => /\ result.kind = "state"
           /\ result.elapsed_time
                = (now - simulation_start_time) * speed_multiplier
           /\ PacingDefined(lap_data)
                => result.current_lap
                    = Min(((2 * result.elapsed_time)
                            \div Median2(lap_data.rows, "LAP_TIME_SEC")) + 1,
                          IF lap_data.has_lap_number
                          THEN ColumnMax(lap_data.rows, "LAP_NUMBER")
                          ELSE 50)

\* the rows of the table whose lap number is the given lap
RowsOfLap(lap) ==
    {i \in 1..Len(lap_data.rows) :
        lap_data.has_lap_number /\ lap_data.rows[i].LAP_NUMBER = lap}

\* C4: the ranked list a RUNNING get_current_race_state returns has exactly
\* one entry for each row of the table whose lap number is the returned
\* current_lap and no other entry, and the positions of its entries are
\* 1, 2, ..., n in list order.
C4_OneEntryPerCurrentLapRow ==
    (QueriedRunning /\ result.kind = "state")
        => LET ps == result.positions
               at == RowsOfLap(result.current_lap)
           IN  /\ Len(ps) = Cardinality(at)
               /\ \A p \in 1..Len(ps) : ps[p].position = p
               /\ \A i \in at :
                    Cardinality({p \in 1..Len(ps) :
                        /\ ps[p].number = lap_data.rows[i].NUMBER
                        /\ ps[p].lap_time_sec
                            = lap_data.rows[i].LAP_TIME_SEC}) = 1

\* two cars are ranked on a lap later than the first
C4_Witness ==
    /\ QueriedRunning
    /\ result.kind = "state"
    /\ result.current_lap > 1
    /\ Len(result.positions) = 2
    /\ result.positions[1].number = 2

\* C5: in the ranked list returned by get_current_race_state the valid lap
\* times ascend, and every entry whose lap time is invalid (absent, or
\* <= 0) comes after every entry whose lap time is valid.
C5_InvalidLapTimesRankedLast ==
    (QueriedRunning /\ result.kind = "state")
        => \A p, q \in 1..Len(result.positions) :
            p < q =>
                LET a == result.positions[p].lap_time_sec
                    b == result.positions[q].lap_time_sec
                IN  /\ (ValidLapTime(a) /\ ValidLapTime(b)) => a <= b
                    /\ ~(~ValidLapTime(a) /\ ValidLapTime(b))


(***************************************************************************)
(* Properties of the Degradation Estimator and the Pit Window Advisor      *)
(***************************************************************************)
\* the last step was a call of calculate_tire_degradation
Estimated == call.op = "calculate_tire_degradation"

\* the last step was a call of recommend_pit_window
Recommended == call.op = "recommend_pit_window"

\* the rows of a driver whose lap time is present and positive, in
\* ascending lap number order
ValidLaps(driver_number) ==
    SelectSeq(sort_values(RowsOfNumber(lap_data.rows, driver_number),
                          "LAP_NUMBER"),
              LAMBDA r : ValidLapTime(r.LAP_TIME_SEC))

\* C6: a driver with fewer than 3 valid laps (lap time present and > 0)
\* contributes no point to the output of calculate_tire_degradation, with
\* or without a driver filter.
C6_FewValidLapsNoPoints ==
    Estimated
        => \A k \in 1..Len(result.points) :
            Len(ValidLaps(result.points[k].NUMBER)) >= 3

\* C7: for a driver with n >= 3 valid laps, the baseline of every emitted
\* point is the median of the driver's first min(5, n) valid lap times in
\* ascending lap number order, and the point's degradation_pct is
\* (lap_time - baseline) / baseline * 100.
C7_BaselineOfValidLaps ==
    Estimated
        => \A k \in 1..Len(result.points) :
            LET pt == result.points[k]
                valid == ValidLaps(pt.NUMBER)
                b2 == Median2(SubSeq(valid, 1, Min(5, Len(valid))),
                              "LAP_TIME_SEC")
            IN  Len(valid) >= 3
                    => /\ pt.BASELINE2 = b2
                       /\ pt.DEGRADATION_PCT.num * b2
                            = (2 * pt.LAP_TIME - b2) * 100
                                * pt.DEGRADATION_PCT.den

\* C8: when the driver has no degradation data (empty table, driver absent
\* from the table, fewer than 3 valid laps), recommend_pit_window returns
\* recommended_lap = current_lap + 10 with urgency low and a reason that
\* tells of the missing data.
C8_NoDataRecommendation ==
    (/\ Recommended
     /\ \/ IsEmpty(lap_data)
        \/ RowsOfNumber(lap_data.rows, call.driver_number) = <<>>
        \/ Len(ValidLaps(call.driver_number)) < 3)
        => /\ result.kind = "recommendation"
           /\ result.recommended_lap = call.current_lap + 10
           /\ result.urgency = "low"
           /\ result.reason \in {"Insufficient data", "No degradation data"}

\* the points calculate_tire_degradation gives for the driver of the call
DriverSeries ==
    RowsOfNumber(calculate_tire_degradation(lap_data, call.driver_number),
                 call.driver_number)

\* the points of the driver's series that lie above 2.0 percent
CriticalPoints ==
    SelectSeq(DriverSeries,
              LAMBDA d : d.DEGRADATION_PCT.num > 2 * d.DEGRADATION_PCT.den)

\* C9: when the driver's degradation series has a point above 2.0 percent,
\* recommend_pit_window returns critical_lap = the smallest lap number
\* among the points above 2.0 percent (a point at exactly 2.0 percent is
\* not one of them) and recommended_lap = max(current_lap, critical_lap - 2).
C9_CriticalLapRecommendation ==
    (Recommended /\ CriticalPoints # <<>>)
        => /\ result.kind = "recommendation"
           /\ "critical_lap" \in DOMAIN result
           /\ \E k \in 1..Len(CriticalPoints) :
                CriticalPoints[k].LAP_NUMBER = result.critical_lap
           /\ \A k \in 1..Len(CriticalPoints) :
                CriticalPoints[k].LAP_NUMBER # NA
                    => result.critical_lap <= CriticalPoints[k].LAP_NUMBER
           /\ result.recommended_lap
                = Max(call.current_lap, result.critical_lap - 2)

\* C10: a recommendation returned from the critical-lap branch has urgency
\* high exactly when critical_lap - current_lap <= 3 and medium otherwise;
\* one returned from any other branch has urgency low; so the urgency is
\* always one of low, medium, high.
C10_Urgency ==
    (Recommended /\ result.kind = "recommendation")
        => /\ result.urgency \in {"low", "medium", "high"}
           /\ IF CriticalPoints # <<>>
              THEN /\ "critical_lap" \in DOMAIN result
                   /\ result.urgency
                        = IF result.critical_lap - call.current_lap <= 3
                          THEN "high" ELSE "medium"
              ELSE result.urgency = "low"

\* the critical lap is exactly 3 laps ahead, which is still urgent
C10_Witness ==
    /\ Recommended
    /\ result.kind = "recommendation"
    /\ "critical_lap" \in DOMAIN result
    /\ result.critical_lap - call.current_lap = 3
    /\ result.urgency = "high"

\* C11 as stated: every recommendation returned by recommend_pit_window
\* carries laps_remaining; in the critical-lap branch it is critical_lap -
\* current_lap, unclamped, and in the default branch it is recommended_lap
\* - current_lap.
C11_LapsRemainingAlways ==
    (Recommended /\ result.kind = "recommendation")
        => /\ "laps_remaining" \in DOMAIN result
           /\ result.laps_remaining
                = IF CriticalPoints # <<>>
                  THEN result.critical_lap - call.current_lap
                  ELSE result.recommended_lap - call.current_lap

\* C11: a recommendation returned from the critical-lap branch carries
\* laps_remaining = critical_lap - current_lap without clamping (negative
\* when current_lap is past the critical lap), one returned from the
\* default branch carries laps_remaining = recommended_lap - current_lap,
\* and one returned for a driver without degradation data carries no
\* laps_remaining at all.
C11_LapsRemainingByBranch ==
    (Recommended /\ result.kind = "recommendation")
        => IF DriverSeries = <<>>
           THEN "laps_remaining" \notin DOMAIN result
           ELSE /\ "laps_remaining" \in DOMAIN result
                /\ result.laps_remaining
                    = IF CriticalPoints # <<>>
                      THEN result.critical_lap - call.current_lap
                      ELSE result.recommended_lap - call.current_lap

\* the current lap is already past the critical lap
C11_Witness ==
    /\ Recommended
    /\ result.kind = "recommendation"
    /\ CriticalPoints # <<>>
    /\ call.current_lap > result.critical_lap
    /\ result.laps_remaining < 0

\* C12: when the driver has degradation data but no point above 2.0
\* percent, recommend_pit_window returns recommended_lap = min(current_lap
\* + 20, total_laps // 2) with urgency low and the reason 'Optimal tire
\* life window', whatever current_lap and total_laps are.
C12_OptimalWindow ==
    (Recommended /\ DriverSeries # <<>> /\ CriticalPoints = <<>>)
        => /\ result.kind = "recommendation"
           /\ result.recommended_lap
                = Min(call.current_lap + 20, call.total_laps \div 2)
           /\ result.urgency = "low"
           /\ result.reason = "Optimal tire life window"

\* in a 50 lap race the tire life, and not half the race, sets the window
C12_Witness ==
    /\ Recommended
    /\ DriverSeries # <<>>
    /\ CriticalPoints = <<>>
    /\ call.total_laps = 50
    /\ call.current_lap + 20 < call.total_laps \div 2
    /\ result.recommended_lap = call.current_lap + 20

(***************************************************************************)
(* Properties of the Undercut Feasibility Calculator                       *)
(***************************************************************************)
\* the last step was a call of calculate_undercut_overtake
Undercut == call.op = "calculate_undercut_overtake"

\* the rows of the table whose lap number is the current_lap of the call
AtLap ==
    {i \in 1..Len(lap_data.rows) :
        /\ lap_data.has_lap_number
        /\ lap_data.rows[i].LAP_NUMBER = call.current_lap}

\* row j is ranked ahead of row i: its lap time is smaller, or i has none,
\* and rows that tie keep their order in the table
RankedAhead(j, i) ==
    LET a == lap_data.rows[j].LAP_TIME_SEC
        b == lap_data.rows[i].LAP_TIME_SEC
    IN  IF a = NA THEN b = NA /\ j < i
        ELSE b = NA \/ a < b \/ (a = b /\ j < i)

\* the 1-based rank of row i among the current-lap rows
RankOf(i) == 1 + Cardinality({j \in AtLap : RankedAhead(j, i)})

\* the current-lap rows of the driver of the call
DriverRows == {i \in AtLap : lap_data.rows[i].NUMBER = call.driver_number}

\* the best ranked row of the driver
DriverRow ==
    CHOOSE i \in DriverRows : \A j \in DriverRows : RankOf(i) <= RankOf(j)

\* the row at the target rank, if any
TargetRows == {i \in AtLap : RankOf(i) = call.target_position}

\* C13 as stated: whenever the table has no row whose lap number is
\* current_lap, the entirely empty table included, the undercut is
\* infeasible with the reason 'No current lap data'.
C13_NoCurrentLapData ==
    (Undercut /\ AtLap = {})
        => /\ result.kind = "undercut"
           /\ ~result.feasible
           /\ result.reason = "No current lap data"

\* C13: when the table has rows and a LAP_NUMBER column but no row whose
\* lap number is current_lap, the undercut is infeasible with the reason
\* 'No current lap data'; when the table is entirely empty it is
\* infeasible with the reason 'No data'; when the table has rows but no
\* LAP_NUMBER column the call raises.
C13_NoCurrentLapDataOrNoData ==
    (Undercut /\ AtLap = {})
        => IF lap_data.rows = <<>>
           THEN result = [kind |-> "undercut", feasible |-> FALSE,
                          reason |-> "No data"]
           ELSE IF lap_data.has_lap_number
           THEN result = [kind |-> "undercut", feasible |-> FALSE,
                          reason |-> "No current lap data"]
           ELSE result.kind = "raised"

\* the driver has a row in the table, but none on the lap asked for
C13_Witness ==
    /\ Undercut
    /\ AtLap = {}
    /\ \E i \in 1..Len(lap_data.rows) :
            lap_data.rows[i].NUMBER = call.driver_number
    /\ result.kind = "undercut"
    /\ result.reason = "No current lap data"

\* C14: when the driver's 1-based rank among the current-lap rows, by
\* ascending lap time, is less than or equal to target_position, the
\* undercut is infeasible with the reason 'Already at or ahead of target',
\* whatever the gap; equality counts as already there.
C14_AlreadyAtOrAhead ==
    (Undercut /\ DriverRows # {} /\ RankOf(DriverRow) <= call.target_position)
        => result = [kind |-> "undercut", feasible |-> FALSE,
                     reason |-> "Already at or ahead of target"]

\* the driver is second, behind a faster car, and the target is second
C14_Witness ==
    /\ Undercut
    /\ DriverRows # {}
    /\ RankOf(DriverRow) = 2
    /\ call.target_position = 2
    /\ \E j \in AtLap :
            /\ lap_data.rows[j].LAP_TIME_SEC # NA
            /\ lap_data.rows[DriverRow].LAP_TIME_SEC # NA
            /\ lap_data.rows[j].LAP_TIME_SEC
                < lap_data.rows[DriverRow].LAP_TIME_SEC
    /\ result.reason = "Already at or ahead of target"

\* C15: when the driver is ranked behind an existing target rank, the
\* undercut returns gap = the driver's lap time - the target's lap time,
\* potential_gain = 1.0 s, net_advantage = potential_gain - gap - 30.0 s
\* and feasible = (potential_gain > gap + 30.0 s), in tenths of a second;
\* a gap of 1.2 s gives net_advantage -30.2 s and feasible = false.  With
\* an absent lap time the gap and the net advantage are absent and
\* feasible is false.
C15_GapAndNetAdvantage ==
    (/\ Undercut
     /\ DriverRows # {}
     /\ RankOf(DriverRow) > call.target_position
     /\ TargetRows # {})
        => LET d == lap_data.rows[DriverRow].LAP_TIME_SEC
               t == lap_data.rows[CHOOSE i \in TargetRows : TRUE].LAP_TIME_SEC
           IN  /\ result.kind = "undercut"
               /\ "gap_to_target" \in DOMAIN result
               /\ result.potential_gain = 10
               /\ IF d = NA \/ t = NA
                  THEN /\ result.gap_to_target = NA
                       /\ result.net_advantage = NA
                       /\ result.feasible = FALSE
                  ELSE /\ result.gap_to_target = d - t
                       /\ result.net_advantage = 10 - (d - t) - 300
                       /\ result.feasible = (10 > (d - t) + 300)
               /\ (result.gap_to_target = 12)
                    => (result.net_advantage = -302 /\ ~result.feasible)

\* the driver is third, 1.2 s slower than the car in first place
C15_Witness ==
    /\ Undercut
    /\ result.kind = "undercut"
    /\ "gap_to_target" \in DOMAIN result
    /\ result.current_position = 3
    /\ call.target_position = 1
    /\ result.gap_to_target = 12
    /\ result.net_advantage = -302
    /\ ~result.feasible

(***************************************************************************)
(* Properties of the Weather Impact Estimator                              *)
(***************************************************************************)
\* the last step was a call of analyze_weather_impact
Analyzed == call.op = "analyze_weather_impact"

\* the last step was a call of get_weather_forecast_impact
Forecast == call.op = "get_weather_forecast_impact"

\* the distinct lap numbers of the lap table
DistinctLapNumbers ==
    IF lap_data.has_lap_number
    THEN {l \in {lap_data.rows[i].LAP_NUMBER : i \in 1..Len(lap_data.rows)} :
            l # NA}
    ELSE {}

\* the temperatures of the weather table that are present
Temperatures ==
    {weather_data[i].AIR_TEMP : i \in 1..Len(weather_data)} \ {NA}

\* the result carries both trend fields
HasTrend ==
    /\ "temperature_trend" \in DOMAIN result
    /\ "temperature_range" \in DOMAIN result

\* the trend fields are what the claim says they are
TrendAsClaimed ==
    IF Temperatures = {}
    THEN /\ result.temperature_trend = "decreasing"
         /\ result.temperature_range = NA
    ELSE LET hi == CHOOSE t \in Temperatures : \A u \in Temperatures : u <= t
             lo == CHOOSE t \in Temperatures : \A u \in Temperatures : t <= u
         IN  /\ result.temperature_trend
                    = IF hi > lo THEN "increasing" ELSE "decreasing"
             /\ result.temperature_range = hi - lo

\* C16 as stated: analyze_weather_impact includes temperature_trend and
\* temperature_range exactly when the lap table has at least 2 distinct lap
\* numbers; the trend is 'increasing' if the largest temperature is above
\* the smallest and 'decreasing' otherwise, and the range is their
\* difference.
C16_TrendIffTwoLaps ==
    Analyzed
        => /\ HasTrend <=> Cardinality(DistinctLapNumbers) >= 2
           /\ HasTrend => TrendAsClaimed

\* C16: when the weather table has rows, analyze_weather_impact includes
\* temperature_trend and temperature_range exactly when the lap table has
\* at least 2 distinct lap numbers; the trend is 'increasing' if the
\* largest temperature is above the smallest and 'decreasing' otherwise
\* (equal ones included), and the range is their difference.  When the
\* weather table has no rows the result is empty.
C16_TrendIffTwoLapsAndWeather ==
    Analyzed
        => IF weather_data = <<>>
           THEN result = EmptyResult
           ELSE /\ HasTrend <=> Cardinality(DistinctLapNumbers) >= 2
                /\ HasTrend => TrendAsClaimed

\* two laps and one temperature: the trend is 'decreasing', the range 0
C16_Witness ==
    /\ Analyzed
    /\ Cardinality(DistinctLapNumbers) = 2
    /\ Cardinality(Temperatures) = 1
    /\ HasTrend
    /\ result.temperature_trend = "decreasing"
    /\ result.temperature_range = 0

\* the sum and the number of the cells of a weather column that are present
Present(col) == SelectSeq(weather_data, LAMBDA r : r[col] # NA)

Total(col) == Sum([i \in 1..Len(Present(col)) |-> Present(col)[i][col]])

\* C17: get_weather_forecast_impact returns temp_change = forecast_temp -
\* the average temperature, humidity_change = forecast_humidity - the
\* average humidity and an estimated lap-time impact of temp_change * 0.1 +
\* (humidity_change / 10) * 0.05 (averages 20 and 40 with a forecast of 25
\* and 50 give 0.55 s per lap); it returns the empty result when either
\* average is undefined.
C17_ForecastImpact ==
    Forecast
        => LET nt == Len(Present("AIR_TEMP"))
               nh == Len(Present("HUMIDITY"))
               \* the changes, times nt and nh
               tc == call.forecast_temp * nt - Total("AIR_TEMP")
               hc == call.forecast_humidity * nh - Total("HUMIDITY")
           IN  IF nt = 0 \/ nh = 0 THEN result = EmptyResult
               ELSE /\ result.kind = "forecast_impact"
                    /\ result.temp_change.num * nt
                        = tc * result.temp_change.den
                    /\ result.humidity_change.num * nh
                        = hc * result.humidity_change.den
                    /\ result.estimated_lap_time_impact.num * 200 * nt * nh
                        = (20 * tc * nh + hc * nt)
                            * result.estimated_lap_time_impact.den
                    /\ (/\ Total("AIR_TEMP") = 20 * nt
                        /\ Total("HUMIDITY") = 40 * nh
                        /\ call.forecast_temp = 25
                        /\ call.forecast_humidity = 50)
                        => result.estimated_lap_time_impact.num * 100
                            = 55 * result.estimated_lap_time_impact.den

\* averages of 20 degrees and 40 percent over two samples, forecast 25 and
\* 50: 0.55 s per lap
C17_Witness ==
    /\ Forecast
    /\ Len(weather_data) = 2
    /\ result.kind = "forecast_impact"
    /\ result.current_temp.num = 20 * result.current_temp.den
    /\ result.current_humidity.num = 40 * result.current_humidity.den
    /\ call.forecast_temp = 25
    /\ call.forecast_humidity = 50
    /\ result.estimated_lap_time_impact.num * 100
            = 55 * result.estimated_lap_time_impact.den

DataQualityOps ==
    {"calculate_tire_degradation", "recommend_pit_window",
     "calculate_undercut_overtake", "get_current_race_state",
     "get_driver_stats", "analyze_weather_impact",
     "get_weather_forecast_impact", "get_current_weather"}

\* C19: on a lap table that is empty, has rows without a lap time or
\* without a lap number, has fewer than 3 valid laps of a driver, lacks the
\* driver or lacks the target rank, every call of the degradation
\* estimator, the pit window advisor, the undercut calculator,
\* get_current_race_state, get_driver_stats and the weather functions
\* completes with a result or a sentinel and never raises.
C19_NeverRaises ==
    (call.op \in DataQualityOps /\ lap_data.has_lap_number)
        => result.kind # "raised"

\* C20: no operation of the projector, the strategy calculator or the
\* weather analyzer changes the lap table: every step leaves its rows and
\* its columns as they were at construction.
C20_TableUnchanged == [][lap_data' = lap_data]_vars

\* the undercut has ranked the second row of the table first, and the
\* table still has the driver's row first
C20_Witness ==
    /\ Undercut
    /\ result.kind = "undercut"
    /\ "current_position" \in DOMAIN result
    /\ result.current_position = 2
    /\ Len(lap_data.rows) >= 2
    /\ lap_data.rows[1].NUMBER = call.driver_number
    /\ lap_data.rows[1].LAP_NUMBER = call.current_lap
    /\ lap_data.rows[1].LAP_TIME_SEC = 50
    /\ lap_data.rows[2] = Row(2, 1, 40)

(***************************************************************************)
(* The polling specification: the dashboard's Real-Time Race Monitor       *)
(* re-runs every half second while the simulation runs and queries the     *)
(* projector each time.  The tables have a positive median lap time and a  *)
(* largest lap number; the wall clock is bounded by MaxTime, and a start   *)
(* is taken only while the clock leaves the replay room to reach the last  *)
(* lap.                                                                    *)
(***************************************************************************)
PollingRows == {Row(1, 1, 40), Row(1, 2, 60), Row(2, 2, 0), Row(2, NA, NA)}

PollingRowSeqs == UNION {[1..n -> PollingRows] : n \in 1..MaxReplayRows}

PollingTables ==
    {t \in {Table(TRUE, rs) : rs \in PollingRowSeqs} :
        PacingDefined(t) /\ ~LapCapRaises(t)}

\* the Start Simulation button: the projector is started at the chosen
\* speed; the bounded clock still has the race time of the whole table left
StartSimulation(m) ==
    /\ 2 * (MaxTime - now) * m
            >= (LapCap(lap_data) - 1) * Median2(lap_data.rows, "LAP_TIME_SEC")
    /\ start_simulation(m)

\* one pass of the monitor while the simulation runs: the query, then
\* time.sleep(0.5) and st.rerun()
Poll ==
    /\ ~IsStopped
    /\ get_current_race_state

InitPolling ==
    /\ now = 0
    /\ weather_data = NoWeather
    /\ earlier = NoEarlier
    /\ session = NoSession
    /\ \E table \in PollingTables : Construct(table)

NextPolling ==
    \/ \E m \in SpeedMultipliers : StartSimulation(m)
    \/ Poll
    \/ Tick

\* the wall clock keeps advancing and the monitor keeps polling
SpecPolling ==
    InitPolling /\ [][NextPolling]_vars /\ WF_vars(Tick) /\ WF_vars(Poll)

(***************************************************************************)
(* Properties of the simulation clock                                      *)
(***************************************************************************)
\* one step leaves the reference instant and the speed multiplier alone
\* unless it is a start, and never clears a reference instant that is set
ClockFrameStep ==
    /\ (\/ simulation_start_time' # simulation_start_time
        \/ speed_multiplier' # speed_multiplier)
           => call'.op = "start_simulation"
    /\ simulation_start_time # None => simulation_start_time' # None

\* the frame alone: only a start moves the clock, nothing stops it
C21_ClockFrame == [][ClockFrameStep]_vars

\* C21: the reference instant and the speed multiplier change only in
\* start_simulation (get_current_race_state, get_lap_history and
\* get_driver_stats leave both unchanged), a started projector is never
\* stopped again, and every query of a started projector returns a
\* non-empty state.
C21_ClockChangesOnlyInStart ==
    [][ClockFrameStep /\ (QueriedRunning' => result'.kind = "state")]_vars

(***************************************************************************)
(* Properties of the pacing lap time                                       *)
(***************************************************************************)
\* the records whose lap time is valid: present and greater than zero
ValidLapRows(rows) == SelectSeq(rows, LAMBDA r : ValidLapTime(r.LAP_TIME_SEC))

\* the lap the elapsed race time falls in when one lap takes half of median2
LapPacedBy(median2, elapsed_race, table) ==
    Min(IntDiv(2 * elapsed_race, median2) + 1, LapCap(table))

\* C22: the pacing lap time get_current_race_state uses for current_lap is
\* the median over the records with a valid lap time (present and > 0)
\* only: whenever such records exist, the returned current_lap is the lap
\* the elapsed race time falls in at the median of their lap times, so
\* records with an absent or <= 0 lap time do not influence it.
C22_PacingFromValidLapsOnly ==
    (/\ QueriedRunning
     /\ result.kind = "state"
     /\ ValidLapRows(lap_data.rows) # <<>>)
        => result.current_lap =
               LapPacedBy(Median2(ValidLapRows(lap_data.rows), "LAP_TIME_SEC"),
                          result.elapsed_time, lap_data)

\* the same with absent lap times only: records without a lap time do not
\* influence current_lap when no lap time is 0.0
C22_AbsentLapTimesIgnored ==
    (/\ QueriedRunning
     /\ result.kind = "state"
     /\ ValidLapRows(lap_data.rows) # <<>>
     /\ \A i \in DOMAIN lap_data.rows : lap_data.rows[i].LAP_TIME_SEC # 0)
        => result.current_lap =
               LapPacedBy(Median2(ValidLapRows(lap_data.rows), "LAP_TIME_SEC"),
                          result.elapsed_time, lap_data)

(***************************************************************************)
(* Properties of the driver filter                                         *)
(***************************************************************************)
\* the driver number occurs in the NUMBER column of the table
NumberPresent(number) ==
    \E i \in DOMAIN lap_data.rows : lap_data.rows[i].NUMBER = number

\* every emitted DegradationPoint carries the driver number of the call
PointsOfRequestedDriver ==
    \A k \in DOMAIN result.points :
        result.points[k].NUMBER = call.driver_number

\* C23: when calculate_tire_degradation is called with a driver_number
\* filter, every emitted DegradationPoint has that driver_number, for every
\* driver number present in the table, driver number 0 included.
C23_FilterKeepsRequestedDriver ==
    (/\ Estimated
     /\ call.driver_number # None
     /\ NumberPresent(call.driver_number))
        => PointsOfRequestedDriver

\* the same for the driver numbers other than 0
C23_FilterKeepsNonZeroDriver ==
    (/\ Estimated
     /\ call.driver_number # None
     /\ call.driver_number # 0
     /\ NumberPresent(call.driver_number))
        => PointsOfRequestedDriver

(***************************************************************************)
(* Properties of the order of the undercut's infeasibility checks          *)
(***************************************************************************)
\* the reason the first check that applies gives, "" when none applies
FirstReason ==
    IF AtLap = {} THEN "No current lap data"
    ELSE IF DriverRows = {} THEN "Driver not found"
    ELSE IF RankOf(DriverRow) <= call.target_position
    THEN "Already at or ahead of target"
    ELSE IF TargetRows = {} THEN "Target position not found"
    ELSE ""

\* the result is what the checks in their order make it: infeasible with
\* the given reason, or an assessment with a gap when no check applies
ResultOfChecks(reason) ==
    /\ result.kind = "undercut"
    /\ IF reason = ""
       THEN "gap_to_target" \in DOMAIN result
       ELSE result = [kind |-> "undercut", feasible |-> FALSE,
                      reason |-> reason]

\* C24 as stated: the infeasibility checks apply in the order no
\* current-lap rows, driver not found among them, current_position <=
\* target_position, no row at the target rank; the first that holds gives
\* the reason, and the gap is computed only when none holds.
C24_ChecksInOrder == Undercut => ResultOfChecks(FirstReason)

\* C24: on a table with a lap_number column the checks apply in the order
\* table empty ('No data'), no current-lap rows, driver not found,
\* current_position <= target_position, no row at the target rank; the
\* first that holds gives the reason and the gap is computed only when
\* none holds.  A table with rows but no lap_number column raises.
C24_ChecksInOrderAfterNoData ==
    Undercut =>
        IF lap_data.rows = <<>> THEN ResultOfChecks("No data")
        ELSE IF ~lap_data.has_lap_number THEN result.kind = "raised"
        ELSE ResultOfChecks(FirstReason)

\* the driver is behind on the lap and the target rank 0 does not exist:
\* the last check gives the reason
C24_Witness ==
    /\ Undercut
    /\ AtLap # {}
    /\ DriverRows # {}
    /\ RankOf(DriverRow) > call.target_position
    /\ TargetRows = {}
    /\ result.kind = "undercut"
    /\ result.reason = "Target position not found"

(***************************************************************************)
(* Properties of the undercut's feasibility                                *)
(***************************************************************************)
\* C27: for every lap table, driver_number, target_position and
\* current_lap the undercut never returns feasible = true: whenever the gap
\* is computed the driver is ranked behind the target in ascending lap-time
\* order, so the gap is >= 0 or undefined and the net advantage is at most
\* -29.0 s (or undefined with the gap), in tenths of a second.
C27_NeverFeasible ==
    (Undercut /\ result.kind = "undercut")
        => /\ ~result.feasible
           /\ "gap_to_target" \in DOMAIN result
                => /\ result.current_position > result.target_position
                   /\ \/ /\ result.gap_to_target = NA
                         /\ result.net_advantage = NA
                      \/ /\ result.gap_to_target # NA
                         /\ result.gap_to_target >= 0
                         /\ result.net_advantage <= -290

\* the driver ties with the car ranked first: the gap is 0 and the net
\* advantage is the bound itself
C27_Witness ==
    /\ Undercut
    /\ result.kind = "undercut"
    /\ "gap_to_target" \in DOMAIN result
    /\ result.current_position = 2
    /\ call.target_position = 1
    /\ result.gap_to_target = 0
    /\ result.net_advantage = -290
    /\ ~result.feasible

(***************************************************************************)
(* Properties of the recommended lap                                       *)
(***************************************************************************)
\* C28: for every call of recommend_pit_window with current_lap >= 1 and
\* any total_laps, in every branch (insufficient data, critical lap,
\* default tire-life window) the returned recommended_lap is never earlier
\* than current_lap.
C28_RecommendedNotBeforeCurrent ==
    (Recommended /\ result.kind = "recommendation" /\ call.current_lap >= 1)
        => result.recommended_lap >= call.current_lap

\* the same outside the default tire-life window branch
C28_NotBeforeCurrentOutsideDefault ==
    (/\ Recommended
     /\ result.kind = "recommendation"
     /\ call.current_lap >= 1
     /\ result.reason # "Optimal tire life window")
        => result.recommended_lap >= call.current_lap

(***************************************************************************)
(* Properties of the projected lap over time                               *)
(***************************************************************************)
\* the table's median lap time is positive and its largest lap number is
\* at least 1
PacedAndNumbered ==
    /\ PacingDefined(lap_data)
    /\ lap_data.has_lap_number
    /\ ColumnMax(lap_data.rows, "LAP_NUMBER") # NA
    /\ ColumnMax(lap_data.rows, "LAP_NUMBER") >= 1

\* C25: between two successive starts, with a wall clock that never goes
\* backwards and a table whose median lap time is positive and whose
\* largest lap number is at least 1, the current_lap a query returns is
\* not below the one the query before it returned (the lap the projector
\* held when the query began: 1 after a start) and lies in 1..the largest
\* lap number.
C25_LapNonDecreasingInRange ==
    (QueriedRunning /\ PacedAndNumbered)
        => /\ result.kind = "state"
           /\ result.current_lap >= call.before.current_lap
           /\ result.current_lap >= 1
           /\ result.current_lap <= ColumnMax(lap_data.rows, "LAP_NUMBER")

\* a query that began at lap 2, returned by an earlier query since the
\* start, and returns the last lap again
C25_Witness ==
    /\ QueriedRunning
    /\ PacedAndNumbered
    /\ now > call.before.simulation_start_time
    /\ call.before.current_lap = 2
    /\ result.kind = "state"
    /\ result.current_lap = 2

(***************************************************************************)
(* Properties of the replay under polling                                  *)
(***************************************************************************)
\* the last query returned the largest lap number of the table
AtLastLap ==
    /\ Queried
    /\ result.kind = "state"
    /\ result.current_lap = ColumnMax(lap_data.rows, "LAP_NUMBER")

\* a step that is not a start keeps the projector on the last lap once it
\* is there
StaysAtLastLap ==
    (/\ ~IsStopped
     /\ current_lap = ColumnMax(lap_data.rows, "LAP_NUMBER")
     /\ call'.op # "start_simulation")
        => /\ current_lap' = current_lap
           /\ Queried' => AtLastLap'

\* C26: while the monitor keeps polling a running simulation and the wall
\* clock keeps advancing (positive speed multiplier, positive median lap
\* time), a query eventually returns the largest lap number of the table,
\* and every later query of the same run returns it again: the replay does
\* not end, wrap or stop by itself.
C26_ReachesLastLapAndStays ==
    /\ (~IsStopped) ~> AtLastLap
    /\ [][StaysAtLastLap]_vars
    /\ [][~IsStopped => ~IsStopped']_vars

\* the query at which the replay of a two-lap table passes from lap 1 to
\* the last lap
C26_Witness ==
    /\ AtLastLap
    /\ call.before.simulation_start_time # None
    /\ call.before.current_lap = 1
    /\ result.current_lap = 2
    /\ result.elapsed_time > 0

(***************************************************************************)
(* The dashboard session: st.session_state with the Load Race Data, Start  *)
(* Simulation and Stop Simulation buttons of the sidebar, the Real-Time    *)
(* Race Monitor and the Pit Advisor.  session.race_data is the 'lap_times' *)
(* entry of the loaded race data; lap_data and the clock fields are those  *)
(* of session_state.simulator once it exists.                              *)
(***************************************************************************)
\* the lap tables load_race_data can return: the empty frame of a missing
\* file, two races, and a race whose lap numbers are all absent
SessionTables ==
    {Table(FALSE, <<>>),
     Table(TRUE, <<Row(1, 1, 40), Row(1, 2, 40)>>),
     Table(TRUE, <<Row(1, 1, 60), Row(2, 1, 60)>>),
     Table(TRUE, <<Row(1, NA, 53)>>)}

\* the drivers offered by the Select Driver box: the cars of the races
SessionDrivers == {1, 2}

\* the default of the Current Lap input shown while no simulation runs
DefaultCurrentLap == 5

\* the Load Race Data button
PressLoadRaceData(table) ==
    /\ session' = [session EXCEPT !.race_data = table, !.data_loaded = TRUE]
    /\ call' = [op |-> "load_race_data"]
    /\ result' = NoResult
    /\ UNCHANGED <<lap_data, weather_data, earlier, now, sim_vars>>

\* the Start Simulation button, shown once data is loaded: with a non-empty
\* lap table a new RaceSimulator is built on it and started
PressStartSimulation(m) ==
    /\ session.data_loaded
    /\ call' = [op |-> "start_button", speed_multiplier |-> m]
    /\ result' = NoResult
    /\ IF ~IsEmpty(session.race_data)
       THEN /\ lap_data' = session.race_data
            /\ speed_multiplier' = m
            /\ simulation_start_time' = now
            /\ current_lap' = 1
            /\ session' = [session EXCEPT !.simulator = TRUE,
                                          !.simulation_running = TRUE]
       ELSE UNCHANGED <<lap_data, sim_vars, session>>
    /\ UNCHANGED <<weather_data, earlier, now>>

\* the Stop Simulation button
PressStopSimulation ==
    /\ session.data_loaded
    /\ session' = [session EXCEPT !.simulation_running = FALSE]
    /\ call' = [op |-> "stop_button"]
    /\ result' = NoResult
    /\ UNCHANGED <<lap_data, weather_data, earlier, now, sim_vars>>

\* one pass of the Real-Time Race Monitor: the page is drawn only for
\* loaded race data with a non-empty lap table
MonitorRerun ==
    /\ session.data_loaded
    /\ ~IsEmpty(session.race_data)
    /\ session.simulation_running
    /\ session.simulator
    /\ get_current_race_state

\* the Pit Advisor of the Strategy tab: the calculator reads the loaded lap
\* table, the current lap is the simulator's while the simulation runs and
\* the input's otherwise
PitAdvisor(driver_number) ==
    /\ session.data_loaded
    /\ ~IsEmpty(session.race_data)
    /\ driver_number # 0
    /\ driver_number \in {session.race_data.rows[i].NUMBER :
                            i \in DOMAIN session.race_data.rows}
    /\ LET lap == IF session.simulation_running /\ session.simulator
                  THEN current_lap
                  ELSE DefaultCurrentLap
       IN  /\ call' = [op |-> "recommend_pit_window",
                       driver_number |-> driver_number,
                       current_lap |-> lap,
                       total_laps |-> DefaultTotalLaps]
           /\ result' = recommend_pit_window(session.race_data,
                                             driver_number, lap,
                                             DefaultTotalLaps)
    /\ UNCHANGED <<lap_data, weather_data, earlier, session, now, sim_vars>>

\* a new browser session: no simulator object yet, so no table to replay
InitSession ==
    /\ now = 0
    /\ weather_data = NoWeather
    /\ earlier = NoEarlier
    /\ session = NoSession
    /\ lap_data = None
    /\ current_lap = 1
    /\ simulation_start_time = None
    /\ speed_multiplier = InitialSpeedMultiplier
    /\ call = [op |-> "init"]
    /\ result = NoResult

NextSession ==
    \/ \E table \in SessionTables : PressLoadRaceData(table)
    \/ \E m \in SpeedMultipliers : PressStartSimulation(m)
    \/ PressStopSimulation
    \/ MonitorRerun
    \/ \E d \in SessionDrivers : PitAdvisor(d)
    \/ Tick

SpecSession == InitSession /\ [][NextSession]_vars

(***************************************************************************)
(* Properties of the dashboard session                                     *)
(***************************************************************************)
\* while the simulation runs there is a simulator, it has been started,
\* and the table it replays was loaded and is not empty
RunningImpliesStarted ==
    session.simulation_running
        => /\ session.simulator
           /\ simulation_start_time # None
           /\ session.data_loaded
           /\ ~IsEmpty(lap_data)

\* the invariant alone, without what the monitor's query returns
C29_RunningImpliesSimulatorStarted == RunningImpliesStarted

\* C29: after any sequence of Load Race Data, Start Simulation and Stop
\* Simulation, simulation_running = true implies that a simulator object
\* exists, that it has been started (its reference instant is set, so the
\* monitor's query returns a non-empty state), and that race data with a
\* non-empty lap table was loaded before the start.
C29_RunningImpliesStartedAndState ==
    /\ RunningImpliesStarted
    /\ (session.simulation_running /\ Queried) => result.kind = "state"

\* C30: whenever simulation_running is true, the lap table the simulator
\* replays is the lap table of the currently loaded race data, also after
\* Load Race Data is pressed again for another race while the simulation
\* runs.
C30_SimulatorReplaysLoadedTable ==
    session.simulation_running
        => /\ session.simulator
           /\ lap_data = session.race_data

\* the same as long as no race is loaded after the start
C30_ReplaysTableLoadedAtStart ==
    [][(/\ session.simulation_running
        /\ lap_data = session.race_data
        /\ call'.op # "load_race_data")
            => (session'.simulation_running
                    => lap_data' = session'.race_data)]_vars

====
